---- MODULE Spec2Model ----
(***************************************************************************)
(* A model of the red-black tree of rbts (src/tree.ts, src/node.ts).       *)
(*                                                                         *)
(* The heap of Node objects is a set of slots 1..NumNodes; slot 0 is the   *)
(* one frozen Node.nilNode.  key, value, parent, left, right and black are *)
(* the fields of the slots.  `new Node(key, value)` takes a slot that no   *)
(* live reference reaches (a fresh object is only known to differ from     *)
(* every live object): the slot numbered like the key when it is free,     *)
(* otherwise the first free slot after those.  Objects that nothing        *)
(* reaches any more are reclaimed (their slot goes back to the state of a  *)
(* never-used slot).                                                       *)
(*                                                                         *)
(* Keys are one-character strings, written as their UTF-16 code unit, so   *)
(* that the default lessOp (a < b) and the README's case-insensitive       *)
(* lessOp (a.toUpperCase() < b.toUpperCase()) are both computed.           *)
(***************************************************************************)
EXTENDS Integers, Sequences, FiniteSets, TLC

\* ------------------------------------------------------------------ bounds
\* entries a tree may count (the guard of every inserting operation)
MaxSize == 5
\* live Node objects beyond one per key (nodes whose key another live node has)
MaxExtra == 1
\* length of the source handed to the constructor
MaxSrc == 3
\* length of the source handed to assign
MaxAssign == 1
\* entries a tree may count where its height is looked at
MaxTall == 7

\* ------------------------------------------------------------- keys, values
\* "A", "B", "C", "a", "b"
KeySeq == <<65, 66, 67, 97, 98>>
NKeys == Len(KeySeq)
Keys == {KeySeq[i] : i \in 1..NKeys}
\* "D", "E": the further keys of a tree whose height is looked at
TallSeq == <<68, 69>>
TallKeys == Keys \cup {TallSeq[i] : i \in 1..Len(TallSeq)}
Vals == {1, 2}
\* the key and the value of a slot no Node object lives in
NoKey == 0
NoVal == NoKey
\* the result `undefined` of get
Undefined == 0

Nil == 0
NumNodes == NKeys + MaxExtra + Len(TallSeq)
Nodes == 1..NumNodes
NodeIds == 0..NumNodes
\* the object deadNode() makes: it is no Node and every property of it throws
DeadNode == NumNodes + 1
\* the _size of a killed tree
NaN == -1

\* the slot numbered like the key
Home(k) ==
  IF k \in Keys THEN CHOOSE i \in 1..NKeys : KeySeq[i] = k
  ELSE NKeys + MaxExtra + (CHOOSE i \in 1..Len(TallSeq) : TallSeq[i] = k)

\* String.prototype.toUpperCase on a one-character ASCII string
ToUpperCase(c) == IF c >= 97 /\ c <= 122 THEN c - 32 ELSE c

LessOps == {"default", "upper"}

\* the lessOp handed to the constructor
LessOp(op, a, b) ==
  IF op = "default" THEN a < b ELSE ToUpperCase(a) < ToUpperCase(b)

VARIABLES
  lessOp,   \* which lessOp the constructor was given
  _root,     \* Tree._root
  _key,      \* Node._key of every slot
  _size,     \* Tree._size
  _parent,   \* Node._parent of every slot
  _left,     \* Node._left
  _right,    \* Node._right
  _black,    \* Node._black
  _value,    \* Node._value
  lastOp,   \* the last call made on the tree and what it returned
  iter,     \* the Iter object the caller holds, and what it has returned so far
  frozen,   \* Object.freeze(this) has been applied to the tree
  script    \* the calls a caller with a fixed plan has still to make

vars ==
  <<lessOp, _root, _size, _key, _parent, _left, _right, _black, _value, lastOp,
    iter, frozen, script>>

\* ------------------------------------------------------------ the heap
\* The tree and the heap as one value, threaded through the operations.
\* pinned: the nodes outside the tree that the caller still refers to;
\* frozen: Object.freeze was applied to the tree, a write to _root or _size
\* throws a TypeError;
\* threw: a TypeError was thrown (a structural write to the frozen nilNode or
\* to the frozen tree, or a read of a property of deadNode);
\* dead: the TypeError thrown is the 'Tree is dead' of deadNode;
\* ret: the value the operation returns.
EmptyHeap(lo) ==
  [ lessOp |-> lo,
    _root   |-> Nil,
    _size   |-> 0,
    _key    |-> [n \in NodeIds |-> NoKey],
    _parent |-> [n \in NodeIds |-> Nil],
    _left   |-> [n \in NodeIds |-> Nil],
    _right  |-> [n \in NodeIds |-> Nil],
    _black  |-> [n \in NodeIds |-> TRUE],
    _value  |-> [n \in NodeIds |-> NoVal],
    pinned |-> {},
    frozen |-> FALSE,
    threw  |-> FALSE,
    dead   |-> FALSE,
    ret    |-> FALSE,
    rotations |-> 0,
    loops  |-> 0 ]

Cur ==
  [ lessOp |-> lessOp, _root |-> _root, _size |-> _size, _key |-> _key, _parent |-> _parent,
    _left |-> _left, _right |-> _right, _black |-> _black, _value |-> _value,
    pinned |-> {iter._node, iter._end} \ {Nil}, frozen |-> frozen,
    threw |-> FALSE, dead |-> FALSE, ret |-> FALSE,
    rotations |-> 0, loops |-> 0 ]

\* After a throw nothing more of the operation runs: every write is skipped.
SetParent(st, n, v) ==
  IF st.threw THEN st
  ELSE IF n = Nil THEN [st EXCEPT !.threw = TRUE]
  ELSE [st EXCEPT !._parent[n] = v]

SetLeft(st, n, v) ==
  IF st.threw THEN st
  ELSE IF n = Nil THEN [st EXCEPT !.threw = TRUE]
  ELSE [st EXCEPT !._left[n] = v]

SetRight(st, n, v) ==
  IF st.threw THEN st
  ELSE IF n = Nil THEN [st EXCEPT !.threw = TRUE]
  ELSE [st EXCEPT !._right[n] = v]

\* a _black setter that nilNode has like every node
SetBlackAny(st, n, b) ==
  IF st.threw THEN st ELSE [st EXCEPT !._black[n] = b]

\* nilNode's _black setter ignores the write
SetBlack(st, n, b) ==
  IF st.threw \/ n = Nil THEN st ELSE [st EXCEPT !._black[n] = b]

\* set _red(value) { this._black = !value }
SetRed(st, n, r) == SetBlack(st, n, ~r)

IsRed(st, n) == ~st._black[n]

SetRoot(st, n) ==
  IF st.threw THEN st
  ELSE IF st.frozen THEN [st EXCEPT !.threw = TRUE]
  ELSE [st EXCEPT !._root = n]

SetSize(st, s) ==
  IF st.threw THEN st
  ELSE IF st.frozen THEN [st EXCEPT !.threw = TRUE]
  ELSE [st EXCEPT !._size = s]

SetValue(st, n, v) ==
  IF st.threw THEN st
  ELSE IF n = Nil THEN [st EXCEPT !.threw = TRUE]
  ELSE [st EXCEPT !._value[n] = v]

Return(st, r) == IF st.threw THEN st ELSE [st EXCEPT !.ret = r]

\* the comparison with its arguments exchanged: lessOp(b.key, a)
_lessSwapped(st, a, n) == LessOp(st.lessOp, st._key[n], a)

\* this._less = (a, b) => lessOp(a, b.key)
_less(st, a, n) == LessOp(st.lessOp, a, st._key[n])

\* ------------------------------------------------------ reachable objects
RECURSIVE Closure(_, _)
Closure(st, S) ==
  LET T == (S \cup {st._left[n] : n \in S} \cup {st._right[n] : n \in S}) \ {Nil}
  IN IF T = S THEN S ELSE Closure(st, T)

\* the real nodes reachable from the root through left and right links;
\* deadNode leads to no node
Reach(st) == Closure(st, {st._root} \ {Nil, DeadNode})

\* An object nothing reaches is reclaimed: the slots outside live go back to
\* the state of a slot never used.
Sweep(st, live) ==
  LET keep(f, d) == [n \in NodeIds |-> IF n \in live \/ n = Nil THEN f[n] ELSE d]
  IN [st EXCEPT !._key    = keep(st._key, NoKey),
                !._parent = keep(st._parent, Nil),
                !._left   = keep(st._left, Nil),
                !._right  = keep(st._right, Nil),
                !._black  = keep(st._black, TRUE),
                !._value  = keep(st._value, NoVal)]

\* the real nodes an object holding the nodes S keeps from being reclaimed:
\* those S leads to through parent, left and right links
RECURSIVE Held(_, _)
Held(st, S) ==
  LET T == (S \cup {st._parent[n] : n \in S} \cup {st._left[n] : n \in S}
              \cup {st._right[n] : n \in S}) \ {Nil}
  IN IF T = S THEN S ELSE Held(st, T)

\* the nodes in use: those of the tree and those the caller's iterator
\* (st.pinned: its _node and its _end) keeps
Live(st) == Reach(st) \cup Held(st, st.pinned)

Collect(st) == Sweep(st, Live(st))

FreeSlots(st, k) ==
  LET free == Nodes \ Live(st)
  IN IF Home(k) \in free THEN {Home(k)}
     ELSE {n \in free : n > NKeys /\ n <= NKeys + MaxExtra}

HasFreeSlot(st, k) == FreeSlots(st, k) # {}

FreeSlot(st, k) ==
  CHOOSE n \in FreeSlots(st, k) : \A m \in FreeSlots(st, k) : n <= m

\* new Node(key, value): _parent = _left = _right = nilNode, _black = true
NewNode(st, n, k, v) ==
  [st EXCEPT !._key[n] = k, !._parent[n] = Nil, !._left[n] = Nil, !._right[n] = Nil,
             !._black[n] = TRUE, !._value[n] = v]

\* -------------------------------------------------------------- navigation
\* a descent that goes all-right where _firstNode goes all-left
RECURSIVE _firstNodeRightmost(_, _)
_firstNodeRightmost(st, n) ==
  IF st._right[n] # Nil THEN _firstNodeRightmost(st, st._right[n]) ELSE n

RECURSIVE _firstNode(_, _)
_firstNode(st, n) ==
  IF st._left[n] # Nil THEN _firstNode(st, st._left[n]) ELSE n

RECURSIVE _lastNode(_, _)
_lastNode(st, n) ==
  IF st._right[n] # Nil THEN _lastNode(st, st._right[n]) ELSE n

RECURSIVE ClimbNext(_, _, _)
ClimbNext(st, node, p) ==
  IF p # Nil /\ node = st._right[p] THEN ClimbNext(st, p, st._parent[p]) ELSE p

\* a successor that takes the parent without climbing
_nextNodeNoClimb(st, node) ==
  IF node = Nil THEN node
  ELSE IF st._right[node] # Nil THEN _firstNode(st, st._right[node])
  ELSE st._parent[node]

_nextNode(st, node) ==
  IF node = Nil THEN node
  ELSE IF st._right[node] # Nil THEN _firstNode(st, st._right[node])
  ELSE ClimbNext(st, node, st._parent[node])

\* while (ok(parent) && node === parent.left) { node = parent; parent = ... }
RECURSIVE ClimbPrev(_, _, _)
ClimbPrev(st, node, p) ==
  IF p # Nil /\ node = st._left[p] THEN ClimbPrev(st, p, st._parent[p]) ELSE p

\* prevNode(node), the mirror of nextNode
prevNode(st, node) ==
  IF node = Nil THEN node
  ELSE IF st._left[node] # Nil THEN _lastNode(st, st._left[node])
  ELSE ClimbPrev(st, node, st._parent[node])

\* a lookup that stops at the first node whose key lessOp does not tell apart
\* from k, whether or not it is the same key
RECURSIVE _findNodeByLess(_, _, _)
_findNodeByLess(st, k, node) ==
  IF node # Nil /\ (_less(st, k, node) \/ LessOp(st.lessOp, st._key[node], k))
  THEN _findNodeByLess(st, k, IF _less(st, k, node) THEN st._left[node] ELSE st._right[node])
  ELSE node

\* while (node.ok && key !== node.key) node = less(key, node) ? left : right
RECURSIVE _findNode(_, _, _)
_findNode(st, k, node) ==
  IF node # Nil /\ k # st._key[node]
  THEN _findNode(st, k, IF _less(st, k, node) THEN st._left[node] ELSE st._right[node])
  ELSE node

getNode(st, k) == _findNode(st, k, st._root)

\* ---------------------------------------------------------------- rotations
\* Every step of an operation is an operator from the state before it to the
\* state after it, applied in the order of the statements of the code.
\* rotations and passes through the body of a fix-up loop that a call has
\* made so far: counted beside the tree, not a field of it
Turned(st) == [st EXCEPT !.rotations = @ + 1]
Looped(st) == [st EXCEPT !.loops = @ + 1]
\* passes after which a fix-up loop is given up as not ending
LoopFuel == NumNodes + 1

\* a left rotation that leaves node._parent as it was
_leftRotateKeepsParent(st, node) ==
  LET child == st._right[node]
      GiveInner(s) == SetRight(s, node, s._left[child])
      AdoptInner(s) ==
        IF s._left[child] # Nil THEN SetParent(s, s._left[child], node) ELSE s
      LiftChild(s) == SetParent(s, child, s._parent[node])
      Relink(s) ==
        IF node = s._root THEN SetRoot(s, child)
        ELSE IF node = s._left[s._parent[node]]
             THEN SetLeft(s, s._parent[node], child)
             ELSE SetRight(s, s._parent[node], child)
      Lower(s) == SetLeft(s, child, node)
  IN Turned(Lower(Relink(LiftChild(AdoptInner(GiveInner(st))))))

_leftRotate(st, node) ==
  LET child == st._right[node]
      \* node._right = child._left
      GiveInner(s) == SetRight(s, node, s._left[child])
      \* if (child._left.ok) child._left._parent = node
      AdoptInner(s) ==
        IF s._left[child] # Nil THEN SetParent(s, s._left[child], node) ELSE s
      \* child._parent = node._parent
      LiftChild(s) == SetParent(s, child, s._parent[node])
      \* if (node === this._root) ... else if (node === node._parent._left) ...
      Relink(s) ==
        IF node = s._root THEN SetRoot(s, child)
        ELSE IF node = s._left[s._parent[node]]
             THEN SetLeft(s, s._parent[node], child)
             ELSE SetRight(s, s._parent[node], child)
      \* node._parent = child; child._left = node
      Lower(s) == SetLeft(SetParent(s, node, child), child, node)
  IN Turned(Lower(Relink(LiftChild(AdoptInner(GiveInner(st))))))

\* a right rotation that leaves this._root as it was
_rightRotateKeepsRoot(st, node) ==
  LET child == st._left[node]
      GiveInner(s) == SetLeft(s, node, s._right[child])
      AdoptInner(s) ==
        IF s._right[child] # Nil THEN SetParent(s, s._right[child], node) ELSE s
      LiftChild(s) == SetParent(s, child, s._parent[node])
      Relink(s) ==
        IF node = s._root THEN s
        ELSE IF node = s._left[s._parent[node]]
             THEN SetLeft(s, s._parent[node], child)
             ELSE SetRight(s, s._parent[node], child)
      Lower(s) == SetRight(SetParent(s, node, child), child, node)
  IN Turned(Lower(Relink(LiftChild(AdoptInner(GiveInner(st))))))

_rightRotate(st, node) ==
  LET child == st._left[node]
      \* node._left = child._right
      GiveInner(s) == SetLeft(s, node, s._right[child])
      \* if (child._right.ok) child._right._parent = node
      AdoptInner(s) ==
        IF s._right[child] # Nil THEN SetParent(s, s._right[child], node) ELSE s
      \* child._parent = node._parent
      LiftChild(s) == SetParent(s, child, s._parent[node])
      \* if (node === this._root) ... else if (node === node._parent._left) ...
      Relink(s) ==
        IF node = s._root THEN SetRoot(s, child)
        ELSE IF node = s._left[s._parent[node]]
             THEN SetLeft(s, s._parent[node], child)
             ELSE SetRight(s, s._parent[node], child)
      \* node._parent = child; child._right = node
      Lower(s) == SetRight(SetParent(s, node, child), child, node)
  IN Turned(Lower(Relink(LiftChild(AdoptInner(GiveInner(st))))))

\* ---------------------------------------------------------------- insertion
\* while (n.ok) { parent = n; n = less(node.key, n) ? n._left : n._right }
RECURSIVE Descend(_, _, _, _)
Descend(st, k, p, n) ==
  IF n # Nil
  THEN Descend(st, k, n, IF _less(st, k, n) THEN st._left[n] ELSE st._right[n])
  ELSE p

\* the recolouring without `parent._black = true`: the parent stays red
RecolourKeepsParentRed(st, p, uncle, grandp) ==
  SetBlack(SetRed(st, grandp, TRUE), uncle, TRUE)

\* parent._black = uncle._black = grandp._red = true (assigned right to left)
Recolour(st, p, uncle, grandp) ==
  SetBlack(SetBlack(SetRed(st, grandp, TRUE), uncle, TRUE), p, TRUE)

\* while (node._parent._red) { ... }
\* an insertion that reinstates nothing
InsertFixNone(st, node) == st

\* a fix-up loop whose body changes neither the tree nor node
RECURSIVE InsertFixStuck(_, _)
InsertFixStuck(st, node) ==
  IF st.threw \/ ~IsRed(st, st._parent[node]) THEN st
  ELSE IF st.loops >= LoopFuel THEN Looped(st)
  ELSE InsertFixStuck(Looped(st), node)

\* a fix-up loop that rotates without recolouring parent and grandparent
RECURSIVE InsertFixKeepsColours(_, _)
InsertFixKeepsColours(st, node) ==
  IF st.threw \/ ~IsRed(st, st._parent[node]) THEN st
  ELSE IF st.loops >= LoopFuel THEN Looped(st)
  ELSE
    LET p == st._parent[node]
        grandp == st._parent[p]
        s0 == Looped(st)
    IN
    IF p = s0._left[grandp] THEN
      IF IsRed(s0, s0._right[grandp])
      THEN InsertFixKeepsColours(Recolour(s0, p, s0._right[grandp], grandp), grandp)
      ELSE
        LET tri == node = s0._right[p]
            s1 == IF tri THEN _leftRotate(s0, p) ELSE s0
            n1 == IF tri THEN p ELSE node
        IN InsertFixKeepsColours(_rightRotate(s1, grandp), n1)
    ELSE
      IF IsRed(s0, s0._left[grandp])
      THEN InsertFixKeepsColours(Recolour(s0, p, s0._left[grandp], grandp), grandp)
      ELSE
        LET tri == node = s0._left[p]
            s1 == IF tri THEN _rightRotate(s0, p) ELSE s0
            n1 == IF tri THEN p ELSE node
        IN InsertFixKeepsColours(_leftRotate(s1, grandp), n1)

RECURSIVE InsertFix(_, _)
InsertFix(st, node) ==
  IF st.threw \/ ~IsRed(st, st._parent[node]) THEN st
  ELSE IF st.loops >= LoopFuel THEN Looped(st)
  ELSE
    LET p == st._parent[node]
        grandp == st._parent[p]
        s0 == Looped(st)
    IN
    IF p = s0._left[grandp] THEN
      IF IsRed(s0, s0._right[grandp])
      THEN InsertFix(Recolour(s0, p, s0._right[grandp], grandp), grandp)
      ELSE
        LET tri == node = s0._right[p]
            s1 == IF tri THEN _leftRotate(s0, p) ELSE s0
            p1 == IF tri THEN node ELSE p
            n1 == IF tri THEN p ELSE node
            s2 == SetBlack(SetRed(s1, grandp, TRUE), p1, TRUE)
        IN InsertFix(_rightRotate(s2, grandp), n1)
    ELSE
      IF IsRed(s0, s0._left[grandp])
      THEN InsertFix(Recolour(s0, p, s0._left[grandp], grandp), grandp)
      ELSE
        LET tri == node = s0._left[p]
            s1 == IF tri THEN _rightRotate(s0, p) ELSE s0
            p1 == IF tri THEN node ELSE p
            n1 == IF tri THEN p ELSE node
            s2 == SetBlack(SetRed(s1, grandp, TRUE), p1, TRUE)
        IN InsertFix(_leftRotate(s2, grandp), n1)

_insertNode(st, node) ==
  LET \* node._parent = node._left = node._right = Node.nilNode
      Detach(s) == SetParent(SetLeft(SetRight(s, node, Nil), node, Nil), node, Nil)
      \* this._size++
      Count(s) == SetSize(s, s._size + 1)
      \* node._parent = parent; less(node.key, parent) ? parent._left = node
      \*                                               : parent._right = node
      Hang(s, p) ==
        IF _less(s, s._key[node], p)
        THEN SetLeft(SetParent(s, node, p), p, node)
        ELSE SetRight(SetParent(s, node, p), p, node)
      Attach(s) == Hang(s, Descend(s, s._key[node], s._root, s._root))
      \* this._root._black = true
      BlackenRoot(s) == SetBlack(s, s._root, TRUE)
      Insert(s) ==
        IF s._root = Nil THEN SetRoot(s, node)
        ELSE BlackenRoot(InsertFix(SetRed(Attach(s), node, TRUE), node))
  IN IF node = Nil THEN st ELSE Insert(Count(Detach(st)))

\* ----------------------------------------------------------------- deletion
\* the loop of _deleteNode that reinstates the invariants, and the
\* `if (node.ok) node._black = true` that follows it
\* In the loop brother is parent._right (parent._left in the mirrored half),
\* read anew after every rotation.
RECURSIVE DeleteFix(_, _, _)
DeleteFix(st, node, par) ==
  LET BlackenRoot(s) == SetBlack(s, s._root, TRUE)
      \* ---- node === parent._left
      \* if (brother._red) { brother._black = parent._red = true; rotate }
      RedBrotherL(s) ==
        IF IsRed(s, s._right[par])
        THEN _leftRotate(SetBlack(SetRed(s, par, TRUE), s._right[par], TRUE), par)
        ELSE s
      \* if (brother._right._black) { brother._left._black = brother._red = true; rotate }
      NearRedL(s) ==
        IF s._black[s._right[s._right[par]]]
        THEN _rightRotate(SetBlack(SetRed(s, s._right[par], TRUE),
                                   s._left[s._right[par]], TRUE), s._right[par])
        ELSE s
      \* brother._black = parent._black
      \* parent._black = brother._right._black = true; rotate
      FarRedL(s) ==
        _leftRotate(SetBlack(SetBlack(SetBlack(s, s._right[par], s._black[par]),
                                      s._right[s._right[par]], TRUE), par, TRUE), par)
      RestL(s) ==
        IF s._black[s._left[s._right[par]]] /\ s._black[s._right[s._right[par]]]
        THEN DeleteFix(SetRed(s, s._right[par], TRUE), par, s._parent[par])
        ELSE BlackenRoot(FarRedL(NearRedL(s)))
      \* ---- node === parent._right
      RedBrotherR(s) ==
        IF IsRed(s, s._left[par])
        THEN _rightRotate(SetBlack(SetRed(s, par, TRUE), s._left[par], TRUE), par)
        ELSE s
      NearRedR(s) ==
        IF s._black[s._left[s._left[par]]]
        THEN _leftRotate(SetBlack(SetRed(s, s._left[par], TRUE),
                                  s._right[s._left[par]], TRUE), s._left[par])
        ELSE s
      FarRedR(s) ==
        _rightRotate(SetBlack(SetBlack(SetBlack(s, s._left[par], s._black[par]),
                                       s._left[s._left[par]], TRUE), par, TRUE), par)
      RestR(s) ==
        IF s._black[s._left[s._left[par]]] /\ s._black[s._right[s._left[par]]]
        THEN DeleteFix(SetRed(s, s._left[par], TRUE), par, s._parent[par])
        ELSE BlackenRoot(FarRedR(NearRedR(s)))
  IN IF st.threw THEN st
     ELSE IF node # st._root /\ st._black[node]
          THEN IF st.loops >= LoopFuel THEN Looped(st)
               ELSE IF node = st._left[par] THEN RestL(RedBrotherL(Looped(st)))
               ELSE RestR(RedBrotherR(Looped(st)))
          \* if (node.ok) node._black = true
          ELSE SetBlack(st, node, TRUE)

\* the branch of _deleteNode for a node with two real children
SpliceNext(st, node) ==
  LET next == _firstNode(st, st._right[node])
      \* if (node === this._root) this._root = next else node._parent._left
      \* or node._parent._right = next
      Replace(s) ==
        IF node = s._root THEN SetRoot(s, next)
        ELSE IF node = s._left[s._parent[node]]
             THEN SetLeft(s, s._parent[node], next)
             ELSE SetRight(s, s._parent[node], next)
      \* if (child.ok) child._parent = parent
      GiveChild(s, child, parent) ==
        IF child # Nil THEN SetParent(s, child, parent) ELSE s
      \* next._right = node._right
      TakeRight(s) == SetRight(s, next, s._right[node])
      \* node._right._parent = next
      AdoptRight(s) == SetParent(s, s._right[node], next)
      \* the else of if (node === parent)
      Unhook(s, child, parent) ==
        AdoptRight(TakeRight(SetLeft(GiveChild(s, child, parent), parent, child)))
      \* next._parent = node._parent
      TakeParent(s) == SetParent(s, next, s._parent[node])
      \* next._black = node._black
      TakeColour(s) == SetBlack(s, next, s._black[node])
      \* node._left._parent = next; nothing assigns next._left
      AdoptLeft(s) == SetParent(s, s._left[node], next)
      Fix(s, child, parent, red) ==
        IF red THEN s ELSE DeleteFix(s, child, parent)
      \* child = next._right, parent = next._parent, red = next._red
      Splice(s, child, parent, red) ==
        IF node = parent
        THEN Fix(AdoptLeft(TakeColour(TakeParent(s))), child, next, red)
        ELSE Fix(AdoptLeft(TakeColour(TakeParent(Unhook(s, child, parent)))),
                 child, parent, red)
      Spliced(s) == Splice(s, s._right[next], s._parent[next], IsRed(s, next))
  IN Spliced(Replace(st))

\* the branch of _deleteNode for a node with at most one real child
SpliceChild(st, node) ==
  LET child == IF st._left[node] # Nil THEN st._left[node] ELSE st._right[node]
      par == st._parent[node]
      red == IsRed(st, node)
      \* if (child.ok) child._parent = parent
      GiveChild(s) == IF child # Nil THEN SetParent(s, child, par) ELSE s
      \* if (node === this._root) this._root = child
      \* else parent._left === node ? parent._left = child : parent._right = child
      Relink(s) ==
        IF node = s._root THEN SetRoot(s, child)
        ELSE IF s._left[par] = node THEN SetLeft(s, par, child)
             ELSE SetRight(s, par, child)
      Fix(s) == IF red THEN s ELSE DeleteFix(s, child, par)
  IN Fix(Relink(GiveChild(st)))

_deleteNode(st, node) ==
  LET Splice(s) ==
        IF s._left[node] # Nil /\ s._right[node] # Nil
        THEN SpliceNext(s, node)
        ELSE SpliceChild(s, node)
  IN IF node = Nil THEN Return(st, FALSE)
     \* this._size--
     ELSE Return(Splice(SetSize(st, st._size - 1)), TRUE)

\* ------------------------------------------------------------ Map interface
has(st, k) == _findNode(st, k, st._root) # Nil

get(st, k) ==
  LET node == _findNode(st, k, st._root)
  IN IF node # Nil THEN st._value[node] ELSE Undefined

\* node.ok ? node.value = value : this._insertNode(new Node(key, value))
set(st, k, v) ==
  LET node == _findNode(st, k, st._root)
  IN IF node # Nil THEN SetValue(st, node, v)
     ELSE LET n == FreeSlot(st, k) IN _insertNode(NewNode(st, n, k, v), n)

\* a delete that resets the links of whatever _findNode returned
deleteUnguarded(st, k) ==
  LET node == _findNode(st, k, st._root)
  IN SetParent(SetLeft(SetRight(_deleteNode(st, node), node, Nil), node, Nil), node, Nil)

\* a delete that leaves the links of the removed node as they were
deleteKeepsLinks(st, k) == _deleteNode(st, _findNode(st, k, st._root))

\* delete(key): _deleteNode, then the links of the removed node are reset
delete(st, k) ==
  LET node == _findNode(st, k, st._root)
      s1 == _deleteNode(st, node)
  IN IF node # Nil
     THEN SetParent(SetLeft(SetRight(s1, node, Nil), node, Nil), node, Nil)
     ELSE s1

\* a clear that leaves the count as it is
clearKeepsSize(st) == SetRoot(st, Nil)

clear(st) == SetSize(SetRoot(st, Nil), 0)

\* assign(source): for (const entry of source) _insertNode(new Node(...))
RECURSIVE assign(_, _)
assign(st, src) ==
  IF Len(src) = 0 THEN st
  ELSE LET n == FreeSlot(st, src[1][1])
       IN assign(_insertNode(NewNode(st, n, src[1][1], src[1][2]), n), Tail(src))

\* new Tree(source, lessOp): if (source) this.assign(source)
Constructor(src, lo) == assign(EmptyHeap(lo), src)

\* [...tree.keys()] and [...tree.entries()]: the nodes an iterator over the
\* whole tree returns, from _firstNode() along _nextNode() to nilNode.  The
\* walk is cut after fuel nodes: more than there are nodes means the links
\* lead round in a circle and the iteration would not end.
RECURSIVE Walk(_, _, _)
Walk(st, node, fuel) ==
  IF node = Nil \/ fuel = 0 THEN <<>>
  ELSE <<node>> \o Walk(st, _nextNode(st, node), fuel - 1)

NodesOf(st) == Walk(st, _firstNode(st, st._root), NumNodes + 1)
KeysOf(st) == [i \in DOMAIN NodesOf(st) |-> st._key[NodesOf(st)[i]]]
EntriesOf(st) ==
  [i \in DOMAIN NodesOf(st) |-> <<st._key[NodesOf(st)[i]], st._value[NodesOf(st)[i]]>>]

\* ---------------------------------------------------------------- iterator
\* no iterator has been made: the fields are those of an iterator over the
\* whole tree that has not been pulled. done and value are what the last pull
\* returned.
NoIter ==
  [_started |-> FALSE, _node |-> Nil, _end |-> Nil,
   done |-> FALSE, value |-> Nil]

\* an Iter whose constructor keeps the end it is given
Iter_constructorKeepsEnd(st, start, end) ==
  [NoIter EXCEPT !._node = start, !._end = end]

\* new Iter(tree, result, start, end):
\* if (start.ok && end.ok && !tree._less(start.key, end)) end = start
Iter_constructor(st, start, end) ==
  [NoIter EXCEPT
     !._node = start,
     !._end = IF start # Nil /\ end # Nil /\ ~_less(st, st._key[start], end)
              THEN start ELSE end]

\* Iter.next(): the iterator after the pull; done and value are what the pull
\* returned (value is the node whose key, value or entry the caller gets)
Iter_next(st, it) ==
  LET \* if (this._node.nil) this._node = this._tree._firstNode()
      First(n) == IF n = Nil THEN _firstNode(st, st._root) ELSE n
      \* if (this._started) this._node = this._tree._nextNode(this._node)
      Step(n) == IF it._started THEN _nextNode(st, n) ELSE n
      \* done = this._node.nil || this._node === this._end
      Result(n) ==
        [it EXCEPT !._node = n, !._started = TRUE,
                   !.done = (n = Nil \/ n = it._end),
                   !.value = IF n = Nil \/ n = it._end THEN Nil ELSE n]
  IN Result(Step(First(it._node)))

\* -------------------------------------------------------------------- kill
\* const throwDead = () => { throw new TypeError('Tree is dead') }
throwDead(st) ==
  IF st.threw THEN st ELSE [st EXCEPT !.threw = TRUE, !.dead = TRUE]

\* Object.freeze(this)
Freeze(st) == IF st.threw THEN st ELSE [st EXCEPT !.frozen = TRUE]

\* a kill that does not freeze the tree
killNoFreeze(st) == SetSize(SetRoot(st, DeadNode), NaN)

\* a kill that leaves the root in place
killKeepsRoot(st) == Freeze(SetSize(st, NaN))

\* kill(): this._root = deadNode(); this._size = NaN; Object.freeze(this)
kill(st) == Freeze(SetSize(SetRoot(st, DeadNode), NaN))

\* The public operations as a caller of a tree that may have been killed gets
\* them.  Those that look a key up, or go down from the root, first read a
\* property of the root (node.ok in _findNode, node._left in _firstNode,
\* node._right in _lastNode): deadNode throws there.
get_call(st, k) ==
  IF st._root = DeadNode THEN throwDead(st) ELSE Return(st, get(st, k))

has_call(st, k) ==
  IF st._root = DeadNode THEN throwDead(st) ELSE Return(st, has(st, k))

getNode_call(st, k) ==
  IF st._root = DeadNode THEN throwDead(st) ELSE Return(st, getNode(st, k))

minNode_call(st) ==
  IF st._root = DeadNode THEN throwDead(st)
  ELSE Return(st, _firstNode(st, st._root))

maxNode_call(st) ==
  IF st._root = DeadNode THEN throwDead(st)
  ELSE Return(st, _lastNode(st, st._root))

set_call(st, k, v) ==
  IF st._root = DeadNode THEN throwDead(st) ELSE set(st, k, v)

delete_call(st, k) ==
  IF st._root = DeadNode THEN throwDead(st) ELSE delete(st, k)

\* clear() writes _root and _size and reads nothing
clear_call(st) == clear(st)

\* get size() { return this._size }
size_call(st) == Return(st, st._size)

\* assign(source): nothing is done for a source without entries; for the
\* first entry _insertNode does this._size++ and then reads this._root.nil
assign_call(st, src) ==
  IF Len(src) = 0 THEN st
  ELSE IF st.frozen \/ st._root = DeadNode
       THEN throwDead(SetSize(st, IF st._size = NaN THEN NaN ELSE st._size + 1))
       ELSE assign(st, src)

\* forEach(f): the first pull of entries() calls _firstNode(); f is the
\* caller's and leaves the tree alone
forEach_call(st) == IF st._root = DeadNode THEN throwDead(st) ELSE st

\* nodes(), keys(), values(), entries(): new Iter(...) reads no field of the
\* tree
nodes_call(st) == st

\* ------------------------------------------------------------------ actions
\* what lastOp records of a call
Op(name, k, src, c) ==
  [op |-> name, key |-> k, ret |-> c.ret, threw |-> c.threw, dead |-> c.dead,
   src |-> src]

\* the call leaves the tree and the nodes as they are in c
Install(c, op) ==
  /\ _root' = c._root
  /\ _size' = c._size
  /\ _key' = c._key
  /\ _parent' = c._parent
  /\ _left' = c._left
  /\ _right' = c._right
  /\ _black' = c._black
  /\ _value' = c._value
  /\ lastOp' = op
  /\ UNCHANGED <<lessOp, iter, frozen, script>>

Done(c, name, k) == Install(c, Op(name, k, <<>>, c))

\* a new node is made only while the bounds leave room for it
Room(st, k) == st._size < MaxSize /\ HasFreeSlot(st, k)

Set(k, v) ==
  /\ ~lastOp.threw
  /\ IF _findNode(Cur, k, Cur._root) # Nil THEN TRUE ELSE Room(Cur, k)
  /\ Done(Collect(set(Cur, k, v)), "set", k)

Delete(k) ==
  /\ ~lastOp.threw
  /\ Done(Collect(delete(Cur, k)), "delete", k)

Clear ==
  /\ ~lastOp.threw
  /\ Done(Collect(clear(Cur)), "clear", NoKey)

SeqsUpTo(S, n) == UNION {[1..m -> S] : m \in 0..n}

RECURSIVE FitsSlots(_, _)
FitsSlots(st, src) ==
  IF Len(src) = 0 THEN TRUE
  ELSE IF ~HasFreeSlot(st, src[1][1]) THEN FALSE
  ELSE LET n == FreeSlot(st, src[1][1])
       IN FitsSlots(_insertNode(NewNode(st, n, src[1][1], src[1][2]), n), Tail(src))

\* the bounds leave room for every node the source makes
Fits(st, src) == st._size + Len(src) <= MaxSize /\ FitsSlots(st, src)

Assign(src) ==
  /\ ~lastOp.threw
  /\ Fits(Cur, src)
  /\ Done(Collect(assign(Cur, src)), "assign", NoKey)

\* the tree and the nodes are as they are in c, which new Tree(src, lo) left
Start(c, src) ==
  /\ script = <<>>
  /\ iter = NoIter
  /\ frozen = FALSE
  /\ lessOp = c.lessOp
  /\ _root = c._root
  /\ _size = c._size
  /\ _key = c._key
  /\ _parent = c._parent
  /\ _left = c._left
  /\ _right = c._right
  /\ _black = c._black
  /\ _value = c._value
  /\ lastOp = Op("new", NoKey, src, c)

\* the state new Tree(src, lo) leaves
Built(src, lo) == Start(Collect(Constructor(src, lo)), src)

\* the keys handed to a tree made with either lessOp and any source:
\* "A", "B", "a"
GenKeys == {65, 66, 97}

Init ==
  \E lo \in LessOps :
    \E src \in SeqsUpTo(GenKeys \X Vals, MaxSrc) :
      Fits(EmptyHeap(lo), src) /\ Built(src, lo)

Next ==
  \/ \E k \in GenKeys, v \in Vals : Set(k, v)
  \/ \E k \in GenKeys : Delete(k)
  \/ Clear
  \/ \E src \in SeqsUpTo(GenKeys \X Vals, MaxAssign) \ {<<>>} : Assign(src)

\* new Tree() with the default lessOp, used as a Map: set, delete and clear
InitMap == Built(<<>>, "default")

NextMap ==
  \/ \E k \in Keys, v \in Vals : Set(k, v)
  \/ \E k \in Keys : Delete(k)
  \/ Clear

SpecMap == InitMap /\ [][NextMap]_vars

Spec == Init /\ [][Next]_vars

\* ------------------------------------------------- a tree and one iterator
\* the tree and the nodes become what they are in c
Leaves(c) ==
  /\ _root' = c._root
  /\ _size' = c._size
  /\ _key' = c._key
  /\ _parent' = c._parent
  /\ _left' = c._left
  /\ _right' = c._right
  /\ _black' = c._black
  /\ _value' = c._value

\* the call leaves the tree as it is in st and the iterator as it; a node
\* neither the tree nor the iterator refers to is reclaimed
InstallIter(st, it, op) ==
  /\ iter' = it
  /\ lastOp' = op
  /\ Leaves(Collect([st EXCEPT !.pinned = {it._node, it._end} \ {Nil}]))
  /\ UNCHANGED <<lessOp, frozen, script>>

\* tree.nodes(start, end); keys, values and entries make the same iterator.
\* One iterator is followed from its making on.
Nodes_(start, end) ==
  /\ ~lastOp.threw
  /\ ~frozen
  /\ iter = NoIter
  /\ InstallIter(Cur, Iter_constructor(Cur, start, end), Op("nodes", NoKey, <<>>, Cur))

\* iterator.next()
Pull ==
  /\ ~lastOp.threw
  /\ ~frozen
  /\ InstallIter(Cur, Iter_next(Cur, iter), Op("next", NoKey, <<>>, Cur))

\* the keys handed to a tree that is iterated over: "A", "B", "C"
IterKeys == {65, 66, 67}

InitIter == Built(<<>>, "default")

NextIter ==
  \/ \E k \in IterKeys : Set(k, 1)
  \/ \E k \in IterKeys : Delete(k)
  \/ Clear
  \/ \E start, end \in Reach(Cur) \cup {Nil} : Nodes_(start, end)
  \/ Pull

SpecIter == InitIter /\ [][NextIter]_vars

\* ------------------------------------------- calls on a tree that may be dead
\* the keys and the sources handed to such a tree: "A", "B", "C"; [] and
\* [["A", 1]]
KillKeys == {65, 66, 67}
KillSrcs == {<<>>, <<<<65, 1>>>>}

\* the call leaves the tree, the nodes and the freeze as they are in c
InstallCall(c, op) ==
  /\ Leaves(Collect(c))
  /\ frozen' = c.frozen
  /\ lastOp' = op
  /\ UNCHANGED <<lessOp, iter, script>>

\* A throw out of a killed tree leaves it as it is and the caller goes on; after
\* a throw out of a live tree nothing more is called.
Called(name, k, c) ==
  /\ IF lastOp.threw THEN frozen ELSE TRUE
  /\ InstallCall(c, Op(name, k, <<>>, c))

\* a live tree makes a node only while the bounds leave room for it
RoomFor(st, k) ==
  IF st._root = DeadNode \/ st.frozen THEN TRUE
  ELSE IF has(st, k) THEN TRUE
  ELSE Room(st, k)

Kill == Called("kill", NoKey, kill(Cur))

GetCall(k) == Called("get", k, get_call(Cur, k))

HasCall(k) == Called("has", k, has_call(Cur, k))

GetNodeCall(k) == Called("getNode", k, getNode_call(Cur, k))

MinNodeCall == Called("minNode", NoKey, minNode_call(Cur))

MaxNodeCall == Called("maxNode", NoKey, maxNode_call(Cur))

SizeCall == Called("size", NoKey, size_call(Cur))

SetCall(k, v) == RoomFor(Cur, k) /\ Called("set", k, set_call(Cur, k, v))

DeleteCall(k) == Called("delete", k, delete_call(Cur, k))

ClearCall == Called("clear", NoKey, clear_call(Cur))

AssignCall(src) ==
  /\ IF Len(src) = 0 THEN TRUE ELSE RoomFor(Cur, src[1][1])
  /\ IF Len(src) = 0 \/ frozen THEN TRUE ELSE ~has(Cur, src[1][1])
  /\ Called("assign", NoKey, assign_call(Cur, src))

ForEachCall == Called("forEach", NoKey, forEach_call(Cur))

NodesCall == Called("nodes", NoKey, nodes_call(Cur))

InitKill == Built(<<>>, "default")

NextKill ==
  \/ Kill
  \/ \E k \in KillKeys : GetCall(k)
  \/ \E k \in KillKeys : HasCall(k)
  \/ \E k \in KillKeys : GetNodeCall(k)
  \/ MinNodeCall
  \/ MaxNodeCall
  \/ SizeCall
  \/ \E k \in KillKeys : SetCall(k, 1)
  \/ \E k \in KillKeys : DeleteCall(k)
  \/ ClearCall
  \/ \E src \in KillSrcs : AssignCall(src)
  \/ ForEachCall
  \/ NodesCall

SpecKill == InitKill /\ [][NextKill]_vars

\* --------------------------------------------------- a tree of more entries
\* set(k, 1) while the tree counts fewer than MaxTall entries
SetTall(k) ==
  /\ ~lastOp.threw
  /\ IF has(Cur, k) THEN TRUE ELSE Cur._size < MaxTall /\ HasFreeSlot(Cur, k)
  /\ Done(Collect(set(Cur, k, 1)), "set", k)

InitTall == Built(<<>>, "default")

NextTall ==
  \/ \E k \in TallKeys : SetTall(k)
  \/ \E k \in TallKeys : Delete(k)

SpecTall == InitTall /\ [][NextTall]_vars

\* ------------------------------------------- a caller that follows a plan
\* the keys of the plan: "A", "B", "C", "a"
DrainKeys == {65, 66, 67, 97}

\* the sequences that hold every element of S once
Orders(S) == {q \in [1..Cardinality(S) -> S] : \A i, j \in DOMAIN q : i # j => q[i] # q[j]}

\* set(k, 1) for the keys of ins in their order, then delete(k) for the keys of
\* del in theirs
Plan(ins, del) ==
  [i \in 1..(Len(ins) + Len(del)) |->
     IF i <= Len(ins) THEN <<"set", ins[i]>> ELSE <<"delete", del[i - Len(ins)]>>]

\* the next call of the plan is made
Planned(c, name, k) ==
  /\ Leaves(c)
  /\ lastOp' = Op(name, k, <<>>, c)
  /\ script' = Tail(script)
  /\ UNCHANGED <<lessOp, iter, frozen>>

PlanSet ==
  /\ ~lastOp.threw
  /\ script # <<>>
  /\ Head(script)[1] = "set"
  /\ Planned(Collect(set(Cur, Head(script)[2], 1)), "set", Head(script)[2])

PlanDelete ==
  /\ ~lastOp.threw
  /\ script # <<>>
  /\ Head(script)[1] = "delete"
  /\ Planned(Collect(delete(Cur, Head(script)[2])), "delete", Head(script)[2])

\* new Tree(), and a plan: any set of keys inserted in any order and then
\* deleted in any order
InitDrain ==
  /\ \E S \in SUBSET DrainKeys :
       \E ins \in Orders(S) : \E del \in Orders(S) : script = Plan(ins, del)
  /\ iter = NoIter
  /\ frozen = FALSE
  /\ lessOp = "default"
  /\ _root = Nil
  /\ _size = 0
  /\ _key = EmptyHeap("default")._key
  /\ _parent = EmptyHeap("default")._parent
  /\ _left = EmptyHeap("default")._left
  /\ _right = EmptyHeap("default")._right
  /\ _black = EmptyHeap("default")._black
  /\ _value = EmptyHeap("default")._value
  /\ lastOp = Op("new", NoKey, <<>>, EmptyHeap("default"))

NextDrain == PlanSet \/ PlanDelete

SpecDrain == InitDrain /\ [][NextDrain]_vars

\* ------------------------------------------------------- sources of any kind
\* What a caller may hand to assign: the number 42, null, the string "a", an
\* array whose second element is null, an array of pairs.
\* items: the elements a for-of over the source yields, each a pair, a
\* one-character string or null.
PairItem(k, v) == [kind |-> "pair", key |-> k, value |-> v]
CharItem(c) == [kind |-> "char", key |-> c, value |-> Undefined]
NullItem == [kind |-> "null", key |-> NoKey, value |-> Undefined]

Number42 == [type |-> "number", items |-> <<>>]
Null == [type |-> "null", items |-> <<>>]
StringOf(chars) ==
  [type |-> "string", items |-> [i \in DOMAIN chars |-> CharItem(chars[i])]]
ArrayOf(items) == [type |-> "array", items |-> items]

\* the sources that are neither an iterable of pairs nor a record
BadSources ==
  {Number42, Null, StringOf(<<97>>), ArrayOf(<<PairItem(65, 1), NullItem>>)}

LoadSources == BadSources \cup {ArrayOf(<<PairItem(66, 1)>>)}

\* isIterable(obj): obj && typeof obj[Symbol.iterator] === 'function'
isIterable(src) == src.type \in {"string", "array"}

\* a TypeError is thrown (Object.entries(null), or entry[0] of a null entry)
throwTypeError(st) == IF st.threw THEN st ELSE [st EXCEPT !.threw = TRUE]

\* entry[0] and entry[1] of the elements a for-of yields: those of a pair, and
\* of a one-character string c the character itself and undefined
EntryOf(src, i) == <<src.items[i].key, src.items[i].value>>

\* the pairs of the elements before the first null element
RECURSIVE EntriesBefore(_, _)
EntriesBefore(src, i) ==
  IF i > Len(src.items) THEN <<>>
  ELSE IF src.items[i].kind = "null" THEN <<>>
  ELSE <<EntryOf(src, i)>> \o EntriesBefore(src, i + 1)

HasNullItem(src) == \E i \in DOMAIN src.items : src.items[i].kind = "null"

\* assign(source) for a source of any kind:
\* if (!isIterable(source)) source = Object.entries(source): a TypeError for
\* null, no entry for a number;
\* for (const entry of source) this._insertNode(new Node(entry[0], entry[1]))
assign_source(st, src) ==
  IF ~isIterable(src)
  THEN IF src.type = "null" THEN throwTypeError(st) ELSE st
  ELSE IF HasNullItem(src)
       THEN throwTypeError(assign(st, EntriesBefore(src, 1)))
       ELSE assign(st, EntriesBefore(src, 1))

AssignSource(src) ==
  /\ ~lastOp.threw
  /\ IF isIterable(src) THEN Fits(Cur, EntriesBefore(src, 1)) ELSE TRUE
  /\ Done(Collect(assign_source(Cur, src)), "assign", NoKey)

\* the keys set to the tree that is loaded: "A", "B", "a"
LoadKeys == {65, 66, 97}

InitLoad == Built(<<>>, "default")

NextLoad ==
  \/ \E k \in LoadKeys : Set(k, 1)
  \/ \E k \in LoadKeys : Delete(k)
  \/ \E src \in LoadSources : AssignSource(src)

SpecLoad == InitLoad /\ [][NextLoad]_vars

\* --------------------------------------------------- a tree that only grows
\* new Tree(lessOp) with either lessOp, then set calls only
InitGrow == \E lo \in LessOps : Built(<<>>, lo)

NextGrow == \E k \in Keys, v \in Vals : Set(k, v)

SpecGrow == InitGrow /\ [][NextGrow]_vars

\* ------------------------------------------- deleting a node the tree holds
\* rbt._deleteNode(node) on a node found by walking from minNode
DeleteNode(n) ==
  /\ ~lastOp.threw
  /\ n \in Reach(Cur)
  /\ Done(Collect(_deleteNode(Cur, n)), "deleteNode", _key[n])

InitNode == Built(<<>>, "default")

NextNode ==
  \/ \E k \in Keys, v \in Vals : Set(k, v)
  \/ \E k \in Keys : Delete(k)
  \/ \E n \in 1..NumNodes : DeleteNode(n)

SpecNode == InitNode /\ [][NextNode]_vars

\* ------------------------------------------- one walk, up to its first done
\* the keys handed to a tree that is walked: "A", "B", "a"
WalkKeys == {65, 66, 97}

\* iterator.next() of a caller who stops at the first done
PullOn == ~iter.done /\ Pull

\* new Tree(lessOp) with either lessOp; set and delete, one iterator over the
\* whole tree
InitWalk == \E lo \in LessOps : Built(<<>>, lo)

NextWalk ==
  \/ \E k \in WalkKeys : Set(k, 1)
  \/ \E k \in WalkKeys : Delete(k)
  \/ Nodes_(Nil, Nil)
  \/ PullOn

SpecWalk == InitWalk /\ [][NextWalk]_vars

\* ------------------------------------------------------ rotating by hand
\* the keys handed to a tree that is rotated: "A", "B", "C", "a"
RotateKeys == {65, 66, 67, 97}

Rotated == lastOp.op \in {"leftRotate", "rightRotate"}

\* tree._leftRotate(n) on a reachable node with a real right child
LeftRotate(n) ==
  /\ ~lastOp.threw
  /\ n \in Reach(Cur)
  /\ _right[n] # Nil
  /\ Done(Collect(_leftRotate(Cur, n)), "leftRotate", _key[n])

\* tree._rightRotate(n) on a reachable node with a real left child
RightRotate(n) ==
  /\ ~lastOp.threw
  /\ n \in Reach(Cur)
  /\ _left[n] # Nil
  /\ Done(Collect(_rightRotate(Cur, n)), "rightRotate", _key[n])

\* set and delete build the tree; once it is rotated by hand, which leaves
\* the colours where they were, only further rotations follow
InitRotate == Built(<<>>, "default")

NextRotate ==
  \/ \E k \in RotateKeys : ~Rotated /\ Set(k, 1)
  \/ \E k \in RotateKeys : ~Rotated /\ Delete(k)
  \/ \E n \in 1..NumNodes : LeftRotate(n)
  \/ \E n \in 1..NumNodes : RightRotate(n)

SpecRotate == InitRotate /\ [][NextRotate]_vars

\* ------------------------------------------------- what a caller can observe
Range(f) == {f[i] : i \in DOMAIN f}

\* some node of the tree holds key k
Stored(st, k) == \E n \in Reach(st) : st._key[n] = k

\* equal(a, b) := !less(a, b) && !less(b, a)
Equiv(lo, a, b) == ~LessOp(lo, a, b) /\ ~LessOp(lo, b, a)

Absent == Undefined

\* the Map a caller sees through has and get
AsMap(st) == [k \in Keys |-> IF has(st, k) THEN get(st, k) ELSE Absent]

\* the keys of a Map in ascending order of their code units
RECURSIVE Ascending(_)
Ascending(S) ==
  IF S = {} THEN <<>>
  ELSE LET m == CHOOSE x \in S : \A y \in S : x <= y
       IN <<m>> \o Ascending(S \ {m})

\* black nodes on every path from n down to nilNode, n included; -1 when two
\* paths differ (or the links do not form a tree)
RECURSIVE BlackHeight(_, _, _)
BlackHeight(st, n, fuel) ==
  IF n = Nil THEN 0
  ELSE IF fuel = 0 THEN -1
  ELSE LET l == BlackHeight(st, st._left[n], fuel - 1)
           r == BlackHeight(st, st._right[n], fuel - 1)
       IN IF l < 0 \/ r < 0 \/ l # r THEN -1
          ELSE l + (IF st._black[n] THEN 1 ELSE 0)

\* ------------------------------------------------------------------- claims

\* C1: delete(k) of a key the tree holds returns true and removes exactly that
\* entry: afterwards has(k) is false, and every other key that was present is
\* still found by has and get with its value and is still among keys().
C1_DeleteRemovesOneEntry ==
  [][\A k \in Keys :
       (has(Cur, k) /\ Delete(k)) =>
         /\ lastOp'.ret
         /\ ~has(Cur', k)
         /\ \A j \in Keys \ {k} :
              has(Cur, j) =>
                /\ has(Cur', j)
                /\ get(Cur', j) = get(Cur, j)
                /\ j \in Range(KeysOf(Cur'))]_vars

\* C2: size is the number of real nodes reachable from the root.
C2_SizeIsReachableCount == _size = Cardinality(Reach(Cur))

\* size is the number of keys the Map holds, keys() those keys in ascending order
MapLike(st) ==
  LET dom == {k \in Keys : AsMap(st)[k] # Absent}
  IN st._size = Cardinality(dom) /\ KeysOf(st) = Ascending(dom)

\* C3: the tree is a Map: every set, delete and clear changes what has and get
\* report (and what delete returns) the way the same call changes a Map, and
\* after it size is the Map's size and keys() the Map's keys in ascending order.
C3_MapRefinement ==
  [][/\ \A k \in Keys, v \in Vals :
          Set(k, v) => AsMap(Cur') = [AsMap(Cur) EXCEPT ![k] = v]
     /\ \A k \in Keys :
          Delete(k) => /\ lastOp'.ret = (AsMap(Cur)[k] # Absent)
                       /\ AsMap(Cur') = [AsMap(Cur) EXCEPT ![k] = Absent]
     /\ Clear => AsMap(Cur') = [k \in Keys |-> Absent]
     /\ MapLike(Cur')]_vars

\* C4: keys() yields keys in strictly increasing order under lessOp, no two
\* of them equivalent.
C4_KeysStrictlyIncreasing ==
  \A i \in 1..(Len(KeysOf(Cur)) - 1) :
    LessOp(lessOp, KeysOf(Cur)[i], KeysOf(Cur)[i + 1])

\* C5: a query key that lessOp orders neither before nor after a stored key is
\* found: getNode returns a node holding such a key, delete removes it and
\* set overwrites it instead of adding a node.
C5_LookupByLessOnly ==
  \A k \in Keys :
    \A n \in Reach(Cur) :
      Equiv(lessOp, k, _key[n]) =>
        /\ _findNode(Cur, k, Cur._root) # Nil
        /\ Equiv(lessOp, k, _key[_findNode(Cur, k, Cur._root)])
        /\ delete(Cur, k).ret
        /\ \A v \in Vals : set(Cur, k, v)._size = _size

\* some stored key differs from k only in letter case
CaseVariantStored(st, k) ==
  \E n \in Reach(st) :
    st._key[n] # k /\ ToUpperCase(st._key[n]) = ToUpperCase(k)

\* no key is followed by one whose upper case orders before its own
UpperOrdered(ks) ==
  \A i \in 1..(Len(ks) - 1) : ~(ToUpperCase(ks[i + 1]) < ToUpperCase(ks[i]))

DeleteLeavesAll(k) ==
  /\ ~lastOp'.ret
  /\ _size' = _size
  /\ EntriesOf(Cur') = EntriesOf(Cur)
  /\ UpperOrdered(KeysOf(Cur'))

C7_BlackHeightUniform == BlackHeight(Cur, _root, NumNodes + 1) >= 0

\* C8: the root is black or the tree is empty, and no reachable red node has
\* a red child.
C8_RootBlackNoRedRed ==
  /\ _black[_root]
  /\ \A n \in Reach(Cur) :
       IsRed(Cur, n) => _black[_left[n]] /\ _black[_right[n]]

\* a delete has just recoloured or rotated a tree that still holds a red node
C8_Witness ==
  /\ lastOp.op = "delete" /\ lastOp.ret
  /\ Cardinality(Reach(Cur)) >= 4
  /\ \E n \in Reach(Cur) : IsRed(Cur, n)

\* the tree and every node as a caller can reach them
SameTree(a, b) ==
  /\ a._root = b._root /\ a._size = b._size /\ a._key = b._key
  /\ a._parent = b._parent /\ a._left = b._left /\ a._right = b._right
  /\ a._black = b._black /\ a._value = b._value

\* C9: delete of a key that is not present returns false and changes nothing;
\* for a present key, two consecutive delete calls return true, then false.
C9_DeleteTwice ==
  [][\A k \in Keys :
       Delete(k) =>
         IF Stored(Cur, k)
         THEN lastOp'.ret /\ ~delete(Cur', k).ret
         ELSE ~lastOp'.ret /\ SameTree(Cur', Cur)]_vars

DistinctKeys(src) ==
  \A i, j \in DOMAIN src : i # j => src[i][1] # src[j][1]

\* C10: new Tree(source) from N pairs with pairwise distinct keys, drained
\* through entries(), yields exactly those N pairs, each once, in an order
\* lessOp never contradicts, and size is N.
C10_RoundTrip ==
  (lastOp.op = "new" /\ DistinctKeys(lastOp.src)) =>
    /\ _size = Len(lastOp.src)
    /\ Len(EntriesOf(Cur)) = Len(lastOp.src)
    /\ Range(EntriesOf(Cur)) = Range(lastOp.src)
    /\ \A i, j \in DOMAIN KeysOf(Cur) :
         i < j => ~LessOp(lessOp, KeysOf(Cur)[j], KeysOf(Cur)[i])

\* a tree made from three pairs whose insertion had to rotate
C10_Witness ==
  /\ lastOp.op = "new" /\ DistinctKeys(lastOp.src) /\ Len(lastOp.src) = 3
  /\ lastOp.src[1][1] # _key[_root]
  /\ _left[_root] # Nil /\ _right[_root] # Nil
\* ------------------------------------------------------------ iteration
\* the tree and the heap after the step
Then ==
  [ lessOp |-> lessOp', _root |-> _root', _size |-> _size', _key |-> _key',
    _parent |-> _parent', _left |-> _left', _right |-> _right',
    _black |-> _black', _value |-> _value',
    pinned |-> {iter'._node, iter'._end} \ {Nil}, frozen |-> frozen',
    threw |-> FALSE, dead |-> FALSE, ret |-> FALSE,
    rotations |-> 0, loops |-> 0 ]

\* the iterator has returned a node and its next pull would return another
Midway(st, it) == it._started /\ ~it.done /\ ~Iter_next(st, it).done

\* set(k, v) has just made a node for k, which orders after the node the
\* iterator returned last and before the node it was going to return next
SetBetween(k) ==
  /\ Midway(Cur, iter)
  /\ lastOp'.op = "set" /\ lastOp'.key = k /\ ~lastOp'.threw
  /\ iter' = iter
  /\ _findNode(Cur, k, Cur._root) = Nil
  /\ _less(Then, _key[iter.value], _findNode(Then, k, Then._root))
  /\ _less(Then, k, Iter_next(Cur, iter).value)

\* C11: after an iterator returned node x, a set that inserts a new key k
\* ordering after x's key and before the key of the node the iterator was going
\* to return next makes the next pull return k's node and the pull after that
\* the formerly-next node.
C11_LiveInsertion ==
  [][\A k \in IterKeys :
       SetBetween(k) =>
         /\ ~Iter_next(Then, iter).done
         /\ _key'[Iter_next(Then, iter).value] = k
         /\ ~Iter_next(Then, Iter_next(Then, iter)).done
         /\ Iter_next(Then, Iter_next(Then, iter)).value = Iter_next(Cur, iter).value]_vars

\* the nodes an iterator returns, pull after pull on the tree as it is, up to
\* its first done (fuel bounds the number of pulls)
RECURSIVE Pulled(_, _, _)
Pulled(st, it, fuel) ==
  IF fuel = 0 \/ Iter_next(st, it).done THEN <<>>
  ELSE <<Iter_next(st, it).value>> \o Pulled(st, Iter_next(st, it), fuel - 1)

\* what tree.nodes(start, end) yields on the tree as it is
Yield(st, start, end) == Pulled(st, Iter_constructor(st, start, end), NumNodes + 1)

\* the nodes of the tree from start (included) to end (excluded) by key;
\* nilNode as start is the minimum, nilNode as end is past the maximum
InRange(st, start, end) ==
  {n \in Reach(st) :
     /\ start # Nil => ~_less(st, st._key[n], start)
     /\ end # Nil => _less(st, st._key[n], end)}

\* r holds every node of S once, in ascending order of the keys
AscendingOver(st, r, S) ==
  /\ Range(r) = S
  /\ Len(r) = Cardinality(S)
  /\ \A i, j \in DOMAIN r : i < j => _less(st, st._key[r[i]], r[j])

\* C12: on an unmodified tree, nodes(start, end) yields exactly the nodes n
\* with start.key <= n.key < end.key in ascending order; nilNode as start
\* means the minimum and nilNode as end means up to the maximum.
C12_HalfOpenRange ==
  \A start, end \in Reach(Cur) \cup {Nil} :
    AscendingOver(Cur, Yield(Cur, start, end), InRange(Cur, start, end))

\* start and end are nodes of the tree and end is start or has a key that
\* orders before the key of start
EndNotAfter(st, start, end) ==
  /\ start \in Reach(st) /\ end \in Reach(st)
  /\ (end = start \/ _less(st, st._key[end], start))

\* C13: bounded iteration whose end node is the start node, or whose end key
\* orders before the start key, yields nothing: the first pull returns done.
C13_EmptyRange ==
  \A start, end \in Reach(Cur) :
    EndNotAfter(Cur, start, end) =>
      /\ Iter_next(Cur, Iter_constructor(Cur, start, end)).done
      /\ Iter_next(Cur, Iter_constructor(Cur, start, end)).value = Nil
      /\ Yield(Cur, start, end) = <<>>

\* a tree with a node whose key orders before the key of another, taken as
\* end and as start: the iteration is empty, though from that start to the
\* maximum it is not
C13_Witness ==
  \E start, end \in Reach(Cur) :
    /\ end # start /\ _less(Cur, _key[end], start)
    /\ Iter_next(Cur, Iter_constructor(Cur, start, end)).done
    /\ Yield(Cur, start, Nil) # <<>>
    /\ Yield(Cur, start, start) = <<>>

\* ------------------------------------------------------------- removal
\* the three links of node n are nilNode
Unlinked(st, n) == st._parent[n] = Nil /\ st._left[n] = Nil /\ st._right[n] = Nil

\* C14: a node removed from the tree, by delete(key) or by _deleteNode(node),
\* has its parent, left and right links equal to nilNode once the call
\* has returned.
C14_RemovedNodeUnlinked ==
  \A n \in Reach(Cur) :
    /\ Unlinked(delete(Cur, _key[n]), getNode(Cur, _key[n]))
    /\ Unlinked(_deleteNode(Cur, n), n)

\* ------------------------------------------------------------ overwrite
\* C15: set(key, value) on a key that is already present overwrites the value
\* of the existing node in place: size, root, every link and every colour stay
\* as they are, no node is made, getNode(key) is the node it was and get(key)
\* is the new value.
C15_SetOverwritesInPlace ==
  [][\A k \in Keys, v \in Vals :
       (Set(k, v) /\ Stored(Cur, k)) =>
         /\ ~lastOp'.threw
         /\ _size' = _size /\ _root' = _root
         /\ _parent' = _parent /\ _left' = _left /\ _right' = _right
         /\ _black' = _black
         /\ _key' = _key
         /\ getNode(Cur, k) # Nil /\ getNode(Cur', k) = getNode(Cur, k)
         /\ _value' = [_value EXCEPT ![getNode(Cur, k)] = v]
         /\ get(Cur', k) = v]_vars

\* ----------------------------------------------------------------- kill
\* the call threw TypeError('Tree is dead') and left the tree as it was
DiesOf(c) == c.threw /\ c.dead /\ SameTree(c, Cur) /\ c.frozen = frozen

\* the call threw the TypeError of a write to a frozen object and left the
\* tree as it was
Refused(c) == c.threw /\ ~c.dead /\ SameTree(c, Cur) /\ c.frozen = frozen

\* the call returned and left the tree as it was
Passes(c) == ~c.threw /\ SameTree(c, Cur) /\ c.frozen = frozen

\* C16 as stated: after kill() every operation of the public interface (get,
\* has, set, delete, clear, assign, size, minNode, maxNode, getNode, forEach,
\* keys/values/entries/nodes) fails.
C16_EveryOperationFails ==
  frozen =>
    /\ \A k \in KillKeys :
         /\ get_call(Cur, k).threw /\ has_call(Cur, k).threw
         /\ getNode_call(Cur, k).threw
         /\ set_call(Cur, k, 1).threw /\ delete_call(Cur, k).threw
    /\ clear_call(Cur).threw
    /\ \A src \in KillSrcs : assign_call(Cur, src).threw
    /\ size_call(Cur).threw
    /\ minNode_call(Cur).threw /\ maxNode_call(Cur).threw
    /\ forEach_call(Cur).threw
    /\ nodes_call(Cur).threw

\* C16: after kill(), get, has, getNode, set, delete, minNode, maxNode and
\* forEach throw 'Tree is dead'; clear, a second kill and assign of a source
\* with an entry throw the TypeError of a write to a frozen object; all of them
\* leave the tree as it is.  size does not fail but reads NaN, and assign of an
\* empty source and keys/values/entries/nodes return without failing.
C16_UseAfterKill ==
  frozen =>
    /\ \A k \in KillKeys :
         /\ DiesOf(get_call(Cur, k)) /\ DiesOf(has_call(Cur, k))
         /\ DiesOf(getNode_call(Cur, k))
         /\ DiesOf(set_call(Cur, k, 1)) /\ DiesOf(delete_call(Cur, k))
    /\ DiesOf(minNode_call(Cur)) /\ DiesOf(maxNode_call(Cur))
    /\ DiesOf(forEach_call(Cur))
    /\ Refused(clear_call(Cur)) /\ Refused(kill(Cur))
    /\ \A src \in KillSrcs : Len(src) > 0 => Refused(assign_call(Cur, src))
    /\ Passes(size_call(Cur)) /\ size_call(Cur).ret = NaN
    /\ Passes(assign_call(Cur, <<>>))
    /\ Passes(nodes_call(Cur))

\* clear() has just been refused by a killed tree
C16_Witness ==
  /\ frozen /\ _root = DeadNode
  /\ lastOp.op = "clear" /\ lastOp.threw /\ ~lastOp.dead

\* what the caller of a killed tree gets: size reads NaN and get, has and set
\* throw 'Tree is dead'
UsedUp ==
  /\ ~size_call(Cur).threw /\ size_call(Cur).ret = NaN
  /\ \A k \in KillKeys :
       /\ get_call(Cur, k).threw /\ get_call(Cur, k).dead
       /\ has_call(Cur, k).threw /\ has_call(Cur, k).dead
       /\ set_call(Cur, k, 1).threw /\ set_call(Cur, k, 1).dead

\* C17: kill() is terminal: from the first kill() on, size reads NaN and every
\* get, has and set throws 'Tree is dead', whatever is called in between (clear,
\* assign, a second kill among them): no call makes the tree usable again.
C17_KillIsTerminal ==
  [][((lastOp'.op = "kill" /\ ~lastOp'.threw) \/ UsedUp) => UsedUp']_vars

\* a second kill() has just been refused, and the tree is as dead as before
C17_Witness ==
  /\ lastOp.op = "kill" /\ lastOp.threw
  /\ UsedUp

\* ------------------------------------------------------------ absent keys
\* C18: on a tree that was not killed, looking up or deleting a key no node
\* holds never throws: get returns undefined, has returns false, getNode
\* returns nilNode, delete returns false, and the tree is left as it is.
C18_AbsentKeyIsQuiet ==
  \A k \in Keys :
    (~frozen /\ ~lastOp.threw /\ ~Stored(Cur, k)) =>
      /\ ~get_call(Cur, k).threw /\ get_call(Cur, k).ret = Undefined
      /\ ~has_call(Cur, k).threw /\ has_call(Cur, k).ret = FALSE
      /\ ~getNode_call(Cur, k).threw /\ getNode_call(Cur, k).ret = Nil
      /\ ~delete_call(Cur, k).threw /\ delete_call(Cur, k).ret = FALSE
      /\ SameTree(delete_call(Cur, k), Cur)

\* delete has just returned false on a tree that holds other keys
C18_Witness ==
  /\ lastOp.op = "delete" /\ ~lastOp.threw /\ lastOp.ret = FALSE
  /\ ~Stored(Cur, lastOp.key)
  /\ Reach(Cur) # {}
  /\ get(Cur, lastOp.key) = Undefined /\ ~has(Cur, lastOp.key)

\* -------------------------------------------------------------- balance
\* the number of nodes on the longest path from n down to a leaf (fuel cuts
\* the descent should the links lead round in a circle)
RECURSIVE Height(_, _, _)
Height(st, n, fuel) ==
  IF n = Nil \/ fuel = 0 THEN 0
  ELSE LET l == Height(st, st._left[n], fuel - 1)
           r == Height(st, st._right[n], fuel - 1)
       IN 1 + IF l > r THEN l ELSE r

EmptyAndUsable(st) ==
  /\ st._size = 0 /\ st._root = Nil
  /\ _firstNode(st, st._root) = Nil /\ _lastNode(st, st._root) = Nil
  /\ \A k \in Keys : ~has(st, k)
  /\ NodesOf(st) = <<>>
  /\ \A k \in IterKeys :
       HasFreeSlot(st, k) =>
         /\ ~set(st, k, 1).threw
         /\ set(st, k, 1)._size = 1
         /\ set(st, k, 1)._root # Nil
         /\ set(st, k, 1)._black[set(st, k, 1)._root]
         /\ get(set(st, k, 1), k) = 1

\* C20: clear() empties the tree from any state: afterwards size is 0, the
\* root, minNode and maxNode are nilNode, has(k) is false for every key, a
\* fresh traversal yields nothing, and a following set(k, v) gives size 1 with
\* a black root.
C20_ClearEmpties ==
  [][Clear => (~lastOp'.threw /\ EmptyAndUsable(Cur'))]_vars

\* clear() has just emptied a tree of which the caller's iterator still holds
\* a node it returned
C20_Witness ==
  /\ lastOp.op = "clear" /\ ~lastOp.threw
  /\ _size = 0 /\ _root = Nil
  /\ iter._started /\ iter.value # Nil /\ _key[iter.value] # NoKey

\* ------------------------------------------------------- minimum and maximum
\* C21: for a tree with size > 0, minNode and maxNode are real nodes holding
\* the least and the greatest key of the tree under lessOp; for an empty tree
\* both are nilNode.
C21_MinMaxNode ==
  LET min == minNode_call(Cur).ret
      max == maxNode_call(Cur).ret
  IN IF _size > 0
     THEN /\ min \in Reach(Cur) /\ max \in Reach(Cur)
          /\ \A n \in Reach(Cur) : ~_less(Cur, _key[n], min)
          /\ \A n \in Reach(Cur) : ~_less(Cur, _key[max], n)
     ELSE min = Nil /\ max = Nil

\* ------------------------------------------------------- insert, then delete
\* C22: inserting any set of distinct keys with set and then deleting each of
\* them once with delete, in any order, makes every delete return true and
\* leaves the tree empty: size 0, root, minNode and maxNode nilNode.
C22_DrainEmpties ==
  /\ lastOp.op = "delete" => lastOp.ret = TRUE
  /\ (lastOp.op = "delete" /\ script = <<>>) =>
       /\ _size = 0 /\ _root = Nil
       /\ minNode_call(Cur).ret = Nil /\ maxNode_call(Cur).ret = Nil

\* -------------------------------------------------------------- nilNode
\* C23: no sequence of tree operations changes nilNode: its parent, left and
\* right stay nilNode and its colour stays black; a write to its colour is a
\* silent no-op, and no public operation on a tree that was not killed
\* attempts a structural write to it (which would throw).
C23_NilNodeUnchanged ==
  /\ _parent[Nil] = Nil /\ _left[Nil] = Nil /\ _right[Nil] = Nil
  /\ _black[Nil] /\ _key[Nil] = NoKey /\ _value[Nil] = NoVal
  /\ \A b \in BOOLEAN :
       /\ ~SetBlack(Cur, Nil, b).threw /\ SameTree(SetBlack(Cur, Nil, b), Cur)
       /\ ~SetRed(Cur, Nil, b).threw /\ SameTree(SetRed(Cur, Nil, b), Cur)
  /\ \A n \in Reach(Cur) \cup {Nil} :
       /\ SetParent(Cur, Nil, n).threw /\ SameTree(SetParent(Cur, Nil, n), Cur)
       /\ SetLeft(Cur, Nil, n).threw /\ SameTree(SetLeft(Cur, Nil, n), Cur)
       /\ SetRight(Cur, Nil, n).threw /\ SameTree(SetRight(Cur, Nil, n), Cur)
  /\ ~lastOp.threw

\* a delete has just removed a node from a tree that goes on holding three or
\* more, and nilNode is as it was made
C23_Witness ==
  /\ lastOp.op = "delete" /\ lastOp.ret = TRUE /\ ~lastOp.threw
  /\ Cardinality(Reach(Cur)) >= 3
  /\ _black[Nil] /\ _parent[Nil] = Nil

\* ------------------------------------------------------------- bulk load
\* C24: assign (and the constructor's bulk load) from a source that is neither
\* an iterable of key-value pairs nor a string-keyed record is rejected: the
\* call signals an error and the tree is left as it was before the call.
C24_BadSourceRejected ==
  [][\A src \in BadSources :
       AssignSource(src) => (lastOp'.threw /\ SameTree(Cur', Cur))]_vars

\* ------------------------------------------------------------ growing trees
\* every key below n orders on the claimed side of n's key
SubtreeOrdered(st, lo) ==
  \A n \in Reach(st) :
    /\ \A m \in Closure(st, {st._left[n]} \ {Nil}) :
         LessOp(lo, st._key[m], st._key[n])
    /\ \A m \in Closure(st, {st._right[n]} \ {Nil}) :
         LessOp(lo, st._key[n], st._key[m])

\* the red-black invariants: black root, no red node with a red child, one
\* black height, keys in search order
RedBlack(st, lo) ==
  /\ st._black[st._root]
  /\ \A n \in Reach(st) :
       IsRed(st, n) => st._black[st._left[n]] /\ st._black[st._right[n]]
  /\ BlackHeight(st, st._root, NumNodes + 1) >= 0
  /\ SubtreeOrdered(st, lo)

\* no stored key is equivalent to k under lessOp
NewKey(st, lo, k) == \A n \in Reach(st) : ~Equiv(lo, k, st._key[n])

\* C25: in a sequence of set calls only, after each set of a new key size has
\* grown by exactly 1 and the red-black invariants hold: black root, no red
\* node with a red child, uniform black height, binary-search ordering.
C25_SetsKeepRedBlack ==
  [][\A k \in Keys, v \in Vals :
       (NewKey(Cur, lessOp, k) /\ Set(k, v)) =>
         /\ _size' = _size + 1
         /\ RedBlack(Cur', lessOp)]_vars

\* ----------------------------------------------------- deleting by node
\* C26: with the default lessOp, after any interleaving of set, delete(key)
\* and _deleteNode of a node of the tree, the key of every reachable node's
\* left child orders strictly before its own and the key of its right child
\* strictly after it.
C26_ChildrenOrdered ==
  \A n \in Reach(Cur) :
    /\ _left[n] # Nil => LessOp(lessOp, _key[_left[n]], _key[n])
    /\ _right[n] # Nil => LessOp(lessOp, _key[n], _key[_right[n]])

\* _deleteNode has just removed a node and left a root with two children
C26_Witness ==
  /\ lastOp.op = "deleteNode" /\ lastOp.ret = TRUE
  /\ _left[_root] # Nil /\ _right[_root] # Nil
  /\ Cardinality(Reach(Cur)) >= 4

\* ------------------------------------------------------- links both ways
\* C27: after every set and delete the parent and child links of the
\* reachable nodes agree: the root's parent is nilNode, every real child of a
\* reachable node has that node as its parent, every reachable node other
\* than the root is the left or the right child of its parent, and no node is
\* below itself.
C27_LinksConsistent ==
  /\ _parent[_root] = Nil
  /\ \A n \in Reach(Cur) :
       /\ _left[n] # Nil => _parent[_left[n]] = n
       /\ _right[n] # Nil => _parent[_right[n]] = n
       /\ n # _root => (n = _left[_parent[n]] \/ n = _right[_parent[n]])
       /\ n \notin Closure(Cur, {_left[n], _right[n]} \ {Nil})

\* a delete has just spliced a node out of a tree that still has a node with
\* a real parent and a real child
C27_Witness ==
  /\ lastOp.op = "delete" /\ lastOp.ret = TRUE
  /\ \E n \in Reach(Cur) :
       /\ _parent[n] # Nil
       /\ (_left[n] # Nil \/ _right[n] # Nil)

\* ------------------------------------------- deleting under an iterator
\* the iterator has returned a node and not yet reported done
Returned(it) == it._started /\ ~it.done /\ it.value # Nil

\* C28: when delete(key) removes the node the iterator returned last, the
\* next pull reports done, also when greater keys remain in the tree.
C28_DeleteEndsIteration ==
  [][\A k \in IterKeys :
       (/\ Returned(iter)
        /\ _findNode(Cur, k, _root) = iter.value
        /\ Delete(k))
         => Iter_next(Cur', iter').done]_vars

\* the node returned last has just been deleted, a greater key is still in
\* the tree, and the pull that follows reports done
C28_Witness ==
  /\ Returned(iter)
  /\ lastOp.op = "delete" /\ lastOp.ret = TRUE
  /\ lastOp.key = _key[iter.value]
  /\ iter.value \notin Reach(Cur)
  /\ \E n \in Reach(Cur) : _less(Cur, _key[iter.value], n)
  /\ Iter_next(Cur, iter).done

\* ------------------------------------------------- an exhausted iterator
\* C29: once next() has reported done, at nilNode or at the end node, every
\* later next() on the same iterator of an unmodified tree reports done with
\* no value.
C29_DoneStaysDone ==
  [][(lastOp.op = "next" /\ iter.done /\ Pull)
       => (iter'.done /\ iter'.value = Nil)]_vars

\* ------------------------------------------- a walk under modification
\* C30: however pulls are interleaved with set calls and with delete calls on
\* keys other than the one returned last, the keys one iterator returns up to
\* its first done are strictly increasing under lessOp: each key returned
\* orders after the key returned before it.
C30_WalkIncreasing ==
  [][(Returned(iter) /\ PullOn /\ ~iter'.done)
       => LessOp(lessOp, _key[iter.value], _key'[iter'.value])]_vars

\* --------------------------------------------------------------- rotations
\* parent and child links of the reachable nodes agree
LinksAgree(st) ==
  /\ st._parent[st._root] = Nil
  /\ \A n \in Reach(st) :
       /\ st._left[n] # Nil => st._parent[st._left[n]] = n
       /\ st._right[n] # Nil => st._parent[st._right[n]] = n
       /\ n # st._root =>
            (n = st._left[st._parent[n]] \/ n = st._right[st._parent[n]])
       /\ n \notin Closure(st, {st._left[n], st._right[n]} \ {Nil})

\* what a rotation of x that promotes child keeps and changes
RotationKeeps(x, child) ==
  /\ ~lastOp'.threw
  /\ NodesOf(Cur') = NodesOf(Cur)
  /\ KeysOf(Cur') = KeysOf(Cur)
  /\ Reach(Cur') = Reach(Cur)
  /\ _black' = _black
  /\ LinksAgree(Cur')
  /\ (_root' = child) = (x = _root)
  /\ _parent'[x] = child

\* C31: _leftRotate(x) on a node with a real right child and _rightRotate(x)
\* on a node with a real left child keep the in-order key sequence and the
\* set of reachable nodes, change no colour, keep parent and child links
\* consistent, and make the promoted child the root exactly when x was the
\* root.
C31_RotationKeeps ==
  [][\A x \in 1..NumNodes :
       /\ LeftRotate(x) => RotationKeeps(x, _right[x])
       /\ RightRotate(x) => RotationKeeps(x, _left[x])]_vars

\* a node has just been rotated down to the third level or below and still
\* has a child of its own
C31_Witness ==
  /\ Rotated /\ ~lastOp.threw
  /\ \E x \in Reach(Cur) :
       /\ _key[x] = lastOp.key
       /\ _parent[x] # Nil /\ _parent[_parent[x]] # Nil
       /\ (_left[x] # Nil \/ _right[x] # Nil)

\* ------------------------------------------------- successor, predecessor
\* the reachable nodes whose keys order after, and before, the key of n
Greater(st, n) == {m \in Reach(st) : _less(st, st._key[n], m)}
Smaller(st, n) == {m \in Reach(st) : _less(st, st._key[m], n)}

\* m holds the smallest key of S, or is nilNode when S is empty
LeastOf(st, S, m) ==
  IF S = {} THEN m = Nil
  ELSE m \in S /\ \A o \in S : ~_less(st, st._key[o], m)

\* m holds the greatest key of S, or is nilNode when S is empty
GreatestOf(st, S, m) ==
  IF S = {} THEN m = Nil
  ELSE m \in S /\ \A o \in S : ~_less(st, st._key[m], o)

\* C32: in a tree in binary-search order nextNode(n) is the node with the
\* smallest key greater than that of n, nilNode when n holds the maximum or
\* is nilNode; prevNode is its mirror, so that prevNode(nextNode(n)) = n
\* unless n holds the maximum and nextNode(prevNode(n)) = n unless n holds
\* the minimum.
C32_NextPrev ==
  SubtreeOrdered(Cur, lessOp) =>
    /\ _nextNode(Cur, Nil) = Nil
    /\ prevNode(Cur, Nil) = Nil
    /\ \A n \in Reach(Cur) :
         /\ LeastOf(Cur, Greater(Cur, n), _nextNode(Cur, n))
         /\ GreatestOf(Cur, Smaller(Cur, n), prevNode(Cur, n))
         /\ Greater(Cur, n) # {} => prevNode(Cur, _nextNode(Cur, n)) = n
         /\ Smaller(Cur, n) # {} => _nextNode(Cur, prevNode(Cur, n)) = n

\* an ordered tree in which the successor of a node without right child lies
\* above its parent, and the predecessor of a node without left child too
C32_Witness ==
  /\ SubtreeOrdered(Cur, lessOp)
  /\ \E n \in Reach(Cur) :
       /\ _right[n] = Nil
       /\ _nextNode(Cur, n) \notin {Nil, _parent[n]}
  /\ \E n \in Reach(Cur) :
       /\ _left[n] = Nil
       /\ prevNode(Cur, n) \notin {Nil, _parent[n]}

\* ----------------------------------------------------------- fix-up loops
\* set(k, v) can be called: the key is there, or a Node object can be made
Settable(st, k) == IF has(st, k) THEN TRUE ELSE HasFreeSlot(st, k)

\* the call that left r returned, after at most bound passes through the body
\* of its fix-up loop
EndsWithin(r, bound) == ~r.threw /\ r.loops <= bound

\* C33: every set and every delete ends, from any tree that set and delete
\* can build: each pass of the insertion fix-up loop and of the deletion
\* fix-up loop moves towards the root or leaves the loop, so neither makes
\* more passes than the tree is high.
C33_FixUpsEnd ==
  \A k \in TallKeys :
    /\ Settable(Cur, k) =>
         EndsWithin(set(Cur, k, 1), Height(Cur, _root, NumNodes) + 1)
    /\ EndsWithin(delete(Cur, k), Height(Cur, _root, NumNodes))

\* a tree in which one delete makes two passes through the deletion loop
\* and one set of a new key a pass through the insertion loop
C33_Witness ==
  /\ \E k \in TallKeys : delete(Cur, k).ret /\ delete(Cur, k).loops >= 2
  /\ \E k \in TallKeys :
       ~has(Cur, k) /\ Settable(Cur, k) /\ set(Cur, k, 1).loops >= 1

\* ---------------------------------------------------- rotations per call
\* C34: on any tree that set and delete can build, one insertion makes at
\* most 2 rotations and one deletion at most 3.
C34_FewRotations ==
  \A k \in TallKeys :
    /\ Settable(Cur, k) => set(Cur, k, 1).rotations <= 2
    /\ delete(Cur, k).rotations <= 3

\* a tree in which one delete makes three rotations and one set two
C34_Witness ==
  /\ \E k \in TallKeys : delete(Cur, k).ret /\ delete(Cur, k).rotations = 3
  /\ \E k \in TallKeys : Settable(Cur, k) /\ set(Cur, k, 1).rotations = 2

\* ------------------------------------------------- bulk load of known keys
\* the entry of src that is the last one for its key
LastFor(src, i) == \A j \in DOMAIN src : j > i => src[j][1] # src[i][1]

\* C35: assign of an entry whose key is in the tree already, or comes twice
\* in the source, changes the value of the node that is there and makes no
\* second node: afterwards size is the number of distinct keys and get(key)
\* is the last value the source gave for the key.
C35_AssignOverwrites ==
  [][\A src \in SeqsUpTo(GenKeys \X Vals, MaxAssign) \ {<<>>} :
       Assign(src) =>
         /\ _size' = Cardinality({k \in Keys : Stored(Cur', k)})
         /\ \A k \in Keys :
              Cardinality({n \in Reach(Cur') : _key'[n] = k}) <= 1
         /\ \A i \in DOMAIN src :
              Stored(Cur, src[i][1]) => Reach(Cur') = Reach(Cur)
         /\ \A i \in DOMAIN src :
              LastFor(src, i) => get(Cur', src[i][1]) = src[i][2]]_vars

\* ------------------------------------------------- clearing under a walk
\* C36: an iterator that has returned a node reports done on its first pull
\* after clear() and yields no entry of the cleared tree.
C36_ClearEndsIteration ==
  [][(Returned(iter) /\ Clear) => Iter_next(Cur', iter').done]_vars

\* ------------------------------------------- deleting a node that is gone
\* the node the iterator returned last is a real node the tree no longer has
HeldGone == iter.value # Nil /\ iter.value \notin Reach(Cur)

\* r has the size, the root and the links of every reachable node of the tree
TreeLeft(r) ==
  /\ r._size = _size
  /\ r._root = _root
  /\ \A n \in Reach(Cur) :
       /\ r._parent[n] = _parent[n]
       /\ r._left[n] = _left[n]
       /\ r._right[n] = _right[n]

\* C37: _deleteNode of a real node that is no longer in the tree, such as one
\* that delete(key) has removed, leaves size, the root and the links of all
\* reachable nodes as they were, whether it returns false or throws.
C37_StaleDeleteLeavesTree ==
  HeldGone => TreeLeft(_deleteNode(Cur, iter.value))

\* ------------------------------------------------ inserting a Node object
\* the root of r is black (nilNode is black: an empty tree passes)
RootBlack(r) == r._black[r._root]

\* C38: _insertNode(node) always leaves the root black, also when the tree is
\* empty and the Node object is red, such as a node that was red when it was
\* deleted and is inserted again; _insertNode(nilNode) changes nothing and
\* leaves size as it was.
C38_InsertLeavesRootBlack ==
  /\ SameTree(_insertNode(Cur, Nil), Cur)
  /\ ~_insertNode(Cur, Nil).threw
  /\ HeldGone => RootBlack(_insertNode(Cur, iter.value))
  /\ \A k \in IterKeys :
       (~has(Cur, k) /\ HasFreeSlot(Cur, k)) => RootBlack(set(Cur, k, 1))

====
